---- MODULE Spec2Model ----
(***************************************************************************)
(* MelodyFlow: the App component (upload, transport, animation loop, note  *)
(* editing), the Gemini transcription service and the PianoRoll drag       *)
(* handlers, as one state machine.                                         *)
(*                                                                         *)
(* Times (note start times, durations, playback position, the hardware     *)
(* audio clock) are integers counting ticks of 1/TicksPerSecond second.    *)
(* One tick is one pixel at the default horizontal zoom, so dx / zoomX is  *)
(* exact for every pointer position of the model. Floating point rounding  *)
(* of the JavaScript numbers is not modelled.                              *)
(***************************************************************************)
EXTENDS Integers, Sequences, FiniteSets, TLC

VARIABLES
  audioContext,   \* App.tsx:12  TRUE when the AudioContext state is non-null
  audioBuffer,    \* App.tsx:13  NULL or the decoded buffer
  fileName,       \* App.tsx:14  NoName or a file name
  isAnalyzing,    \* App.tsx:16
  analysis,       \* App.tsx:18  NULL or an AudioAnalysisResult
  isPlaying,      \* App.tsx:20
  currentTime,    \* App.tsx:21
  startTimeRef,   \* App.tsx:22  the epoch: clock value at which track time 0 was
  sourceNodeRef,  \* App.tsx:23  NULL or the buffer source node held
  rafPending,     \* App.tsx:24  TRUE while a requested animation frame is pending
  liveSources,    \* number of buffer source nodes started and not stopped
  toolMode,       \* App.tsx:26
  viewState,      \* App.tsx:27
  dragState,      \* part_000:170 NULL or the drag record
  now,            \* audioContext.currentTime, the hardware audio clock
  apiKey,         \* process.env.API_KEY is set
  pc,             \* position of the handleFileUpload call in flight
  upFile,         \* the file of the handleFileUpload call in flight, or of the one that failed last
  upPre,          \* audioBuffer and fileName as they were when that call began
  pointer,        \* where the mouse pointer is (clientX, clientY)
  presses,        \* number of pointer presses on notes so far
  plays,          \* number of times playback was started so far
  choices,        \* number of tool choices and scrolls so far
  last            \* the upload or transport handler that ran last

appVars   == <<audioContext, audioBuffer, fileName, isAnalyzing, analysis>>
transVars == <<isPlaying, currentTime, startTimeRef, sourceNodeRef, rafPending, liveSources>>
allTransVars == <<transVars, plays, last>>
editVars  == <<toolMode, viewState, dragState, pointer, presses, choices>>
envVars   == <<now, apiKey>>
upVars    == <<pc, upFile, upPre>>
vars == <<audioContext, audioBuffer, fileName, isAnalyzing, analysis, isPlaying,
          currentTime, startTimeRef, sourceNodeRef, rafPending, liveSources,
          toolMode, viewState, dragState, now, apiKey, pc, upFile, upPre, pointer, presses, plays, choices, last>>

\* null for the record-valued state (a buffer, an analysis, a drag record, a
\* source node, a file) and for the file name
NULL == [null |-> TRUE]
NoName == "null"

----------------------------------------------------------------------------
(* Program constants *)

MIN_MIDI == 21
MAX_MIDI == 108
DEFAULT_ZOOM_X == 100
DEFAULT_ZOOM_Y == 24
DEFAULT_BPM == 120
MaxFileMB == 50
MaxFileSize == MaxFileMB * 1024 * 1024
ToolModes == {"POINTER", "PENCIL", "CUT", "ZOOM"}

TicksPerSecond == DEFAULT_ZOOM_X

----------------------------------------------------------------------------
(* Bounds of the model *)

MaxGestures == 2     \* presses on notes, starts of playback, tool choices and scrolls in one behaviour
MaxClock == 5        \* the hardware clock stops advancing here
MaxDuration == 3     \* longest decoded track, in ticks
MaxStep == 2         \* largest clock advance between two events

----------------------------------------------------------------------------
(* Inputs *)

Files ==
  { [name |-> "small.mp3", size |-> 1024,               type |-> "audio/mpeg"],
    [name |-> "exact.wav", size |-> MaxFileSize,        type |-> "audio/wav"],
    [name |-> "over.wav",  size |-> MaxFileSize + 1,    type |-> "audio/wav"],
    [name |-> "big.flac",  size |-> 60 * 1024 * 1024,   type |-> "audio/flac"] }

Durations == {MaxDuration}

\* velocity is carried in hundredths
N60   == [midi |-> 60,  startTime |-> 5 * TicksPerSecond, duration |-> 2 * TicksPerSecond, velocity |-> 80]
NLow  == [midi |-> 22,  startTime |-> 30,   duration |-> 100, velocity |-> 50]
NHigh == [midi |-> 107, startTime |-> 0,    duration |-> 3,   velocity |-> 100]
NOut  == [midi |-> 120, startTime |-> -100, duration |-> 100, velocity |-> 70]

\* What generateContent can answer. kind "ok" carries the parsed JSON; an
\* absent key, scale or bpm is "" or 0 (falsy); the schema of the request
\* (geminiService.ts:36-57) types midi as INTEGER and startTime as NUMBER
\* and states no range.
Responses ==
  { [kind |-> "reject",  data |-> NULL],
    [kind |-> "empty",   data |-> NULL],
    [kind |-> "badjson", data |-> NULL],
    [kind |-> "nonotes", data |-> NULL],
    [kind |-> "ok", data |-> [key |-> "C Major", scale |-> "Major", bpm |-> 90, notes |-> <<N60, NLow>>]],
    [kind |-> "ok", data |-> [key |-> "",        scale |-> "",      bpm |-> 0,  notes |-> <<NHigh>>]],
    [kind |-> "ok", data |-> [key |-> "A Minor", scale |-> "Minor", bpm |-> 60, notes |-> <<NOut>>]],
    [kind |-> "ok", data |-> [key |-> "D Major", scale |-> "Major", bpm |-> 72, notes |-> <<>>]] }

PointerPositions == {<<50, 0>>, <<0, 12>>, <<0, 48>>}
ScrollPositions == {<<0, 0>>, <<0, 1152>>}

\* Values of viewState.zoomX (pixels per second) and viewState.zoomY (pixels
\* per semitone) the layout is computed for
ZoomXs == {1, 50, DEFAULT_ZOOM_X, 200}
ZoomYs == {1, DEFAULT_ZOOM_Y, 40}

\* The record kept in last: the upload or transport handler that ran last;
\* for the handlers that stop playback, the playback position before it ran
\* (t); for a file chosen, its size.
NoEvent == [op |-> "init", t |-> 0, size |-> 0]
Event(op) == [op |-> op, t |-> 0, size |-> 0]
TimedEvent(op) == [op |-> op, t |-> currentTime, size |-> 0]
FileEvent(op, file) == [op |-> op, t |-> 0, size |-> file.size]

----------------------------------------------------------------------------
(* Pure helpers *)

Max(a, b) == IF a >= b THEN a ELSE b
Min(a, b) == IF a <= b THEN a ELSE b

\* Math.round(n / d) for d > 0: the nearest integer, halves towards +infinity
MathRound(n, d) == (2 * n + d) \div (2 * d)

\* geminiService.ts:88-92
HydrateNote(n, index) ==
  [id |-> index, midi |-> n.midi, startTime |-> n.startTime,
   duration |-> n.duration, velocity |-> n.velocity, selected |-> FALSE]

\* geminiService.ts:85-99
Hydrate(data) ==
  [key   |-> IF data.key = "" THEN "Desconocido" ELSE data.key,
   scale |-> IF data.scale = "" THEN "Desconocido" ELSE data.scale,
   bpm   |-> IF data.bpm = 0 THEN DEFAULT_BPM ELSE data.bpm,
   notes |-> [k \in DOMAIN data.notes |-> HydrateNote(data.notes[k], k - 1)]]

\* ReplaceNote with the test of the identifier lost: every note is replaced
ReplaceNoteEvery(a, updatedNote) ==
  [a EXCEPT !.notes = [k \in DOMAIN a.notes |-> updatedNote]]

\* App.tsx:163-166
ReplaceNote(a, updatedNote) ==
  [a EXCEPT !.notes =
     [k \in DOMAIN a.notes |-> IF a.notes[k].id = updatedNote.id THEN updatedNote ELSE a.notes[k]]]

\* SelectNotes adding to the selection where the code replaces it
SelectNotesAdd(a, selectedIds) ==
  [a EXCEPT !.notes =
     [k \in DOMAIN a.notes |->
        [a.notes[k] EXCEPT !.selected = (a.notes[k].selected \/ a.notes[k].id \in selectedIds)]]]

\* App.tsx:171-177
SelectNotes(a, selectedIds) ==
  [a EXCEPT !.notes =
     [k \in DOMAIN a.notes |-> [a.notes[k] EXCEPT !.selected = (a.notes[k].id \in selectedIds)]]]

\* part_000:195-202
DragTarget(ds, vs, clientX, clientY) ==
  LET dx == clientX - ds.startX
      dy == clientY - ds.startY
      timeDelta == (dx * TicksPerSecond) \div vs.zoomX
      midiDelta == 0 - MathRound(dy, vs.zoomY)
  IN [startTime |-> Max(0, ds.originalTime + timeDelta),
      midi      |-> Min(MAX_MIDI, Max(MIN_MIDI, ds.originalMidi + midiDelta))]

\* The least width a note is drawn with, in pixels
MinNoteWidth == 4

\* NoteStyle with the pitch axis upright: the top grows with the pitch
NoteStyleUpright(note, vs) ==
  [top    |-> (note.midi - MIN_MIDI) * vs.zoomY,
   left   |-> note.startTime * vs.zoomX,
   width  |-> Max(note.duration * vs.zoomX, MinNoteWidth * TicksPerSecond),
   height |-> vs.zoomY - 2,
   margin |-> 1]

\* part_000:173-174, 301-325: the style of the element a note is drawn as,
\* inside the grid content (the scroll container moves the content as a
\* whole). top, height and margin are in pixels; left and width are in
\* 1/TicksPerSecond pixel, times being in ticks.
NoteStyle(note, vs) ==
  [top    |-> (MAX_MIDI - note.midi) * vs.zoomY,
   left   |-> note.startTime * vs.zoomX,
   width  |-> Max(note.duration * vs.zoomX, MinNoteWidth * TicksPerSecond),
   height |-> vs.zoomY - 2,
   margin |-> 1]

----------------------------------------------------------------------------
(* What is rendered, and so which handlers the user can reach *)

\* App.tsx:182-216: the upload screen, the only place of the file input
UploadScreen == analysis = NULL /\ ~isAnalyzing

\* App.tsx:229-268: the toolbar and the editor
MainView == analysis # NULL /\ ~isAnalyzing

\* App.tsx:243-254
PianoRollShown == MainView /\ audioBuffer # NULL

----------------------------------------------------------------------------
(* Initial state: the App component after its first render *)

Init ==
  /\ audioContext = FALSE
  /\ audioBuffer = NULL
  /\ fileName = NoName
  /\ isAnalyzing = FALSE
  /\ analysis = NULL
  /\ isPlaying = FALSE
  /\ currentTime = 0
  /\ startTimeRef = 0
  /\ sourceNodeRef = NULL
  /\ rafPending = FALSE
  /\ liveSources = 0
  /\ toolMode = "POINTER"
  /\ viewState = [zoomX |-> DEFAULT_ZOOM_X, zoomY |-> DEFAULT_ZOOM_Y, scrollX |-> 0, scrollY |-> 0]
  /\ dragState = NULL
  /\ pointer = [x |-> 50, y |-> 0]
  /\ now = 0
  /\ apiKey \in BOOLEAN
  /\ pc = "idle"
  /\ upFile = NULL
  /\ upPre = NULL
  /\ presses = 0
  /\ plays = 0
  /\ choices = 0
  /\ last = NoEvent

----------------------------------------------------------------------------
(* Upload: handleFileUpload, one action per stretch between two awaits *)

\* TooLarge with >= where the code has >
TooLargeInclusive(file) == file.size >= MaxFileSize

\* App.tsx:51
TooLarge(file) == file.size > MaxFileSize

\* UploadFailed without the finally block
UploadFailedStillAnalyzing(op) ==
  /\ pc' = "idle"
  /\ last' = Event(op)
  /\ UNCHANGED <<audioContext, audioBuffer, fileName, isAnalyzing, analysis, upFile, upPre>>
  /\ UNCHANGED <<transVars, plays, editVars, envVars>>

\* App.tsx:75-80: catch (alert) and finally
UploadFailed(op) ==
  /\ isAnalyzing' = FALSE
  /\ pc' = "idle"
  /\ last' = Event(op)
  /\ UNCHANGED <<audioContext, audioBuffer, fileName, analysis, upFile, upPre>>
  /\ UNCHANGED <<transVars, plays, editVars, envVars>>

\* App.tsx:45-64: up to the await of decodeAudio. getAudioContext (35-42)
\* creates the context when there is none.
handleFileUpload(file) ==
  IF TooLarge(file)
  THEN /\ last' = FileEvent("uploadRejected", file)
       /\ UNCHANGED <<appVars, transVars, plays, editVars, envVars, upVars>>
  ELSE /\ fileName' = file.name
       /\ isAnalyzing' = TRUE
       /\ audioContext' = TRUE
       /\ pc' = "decode"
       /\ upFile' = file
       /\ upPre' = [audioBuffer |-> audioBuffer, fileName |-> fileName]
       /\ last' = FileEvent("uploadStarted", file)
       /\ UNCHANGED <<audioBuffer, analysis, transVars, plays, editVars, envVars>>

ChooseFile ==
  /\ UploadScreen
  /\ pc = "idle"
  /\ \E file \in Files : handleFileUpload(file)

\* App.tsx:64-69: decodeAudio resolved; the effect of 136-157 runs again
\* because audioBuffer changed.
DecodeResolved ==
  /\ pc = "decode"
  /\ \E d \in Durations : audioBuffer' = [src |-> upFile.name, duration |-> d]
  /\ rafPending' = isPlaying
  /\ pc' = "base64"
  /\ last' = Event("decoded")
  /\ UNCHANGED <<audioContext, fileName, isAnalyzing, analysis, upFile, upPre>>
  /\ UNCHANGED <<isPlaying, currentTime, startTimeRef, sourceNodeRef, liveSources>>
  /\ UNCHANGED <<plays, editVars, envVars>>

\* App.tsx:64, 75-80: decodeAudio rejected
DecodeRejected ==
  /\ pc = "decode"
  /\ UploadFailed("decodeFailed")

\* App.tsx:69-72 and geminiService.ts:9-78: fileToBase64 resolved and
\* analyzeAudioWithGemini is called; without an API key it throws at once.
EncodeResolved ==
  /\ pc = "base64"
  /\ IF apiKey
     THEN /\ pc' = "gemini"
          /\ last' = Event("requestSent")
          /\ UNCHANGED <<appVars, transVars, plays, editVars, envVars, upFile, upPre>>
     ELSE UploadFailed("noApiKey")

\* App.tsx:69, 75-80: fileToBase64 rejected
EncodeRejected ==
  /\ pc = "base64"
  /\ UploadFailed("encodeFailed")

\* geminiService.ts:80-104 and App.tsx:72-80
analyzeAudioWithGemini(r) ==
  IF r.kind = "ok"
  THEN /\ analysis' = Hydrate(r.data)
       /\ isAnalyzing' = FALSE
       /\ pc' = "idle"
       /\ upFile' = NULL
       /\ upPre' = NULL
       /\ last' = Event("analysed")
       /\ UNCHANGED <<audioContext, audioBuffer, fileName>>
       /\ UNCHANGED <<transVars, plays, editVars, envVars>>
  ELSE UploadFailed("analysisFailed")

GeminiResponded ==
  /\ pc = "gemini"
  /\ \E r \in Responses : analyzeAudioWithGemini(r)

----------------------------------------------------------------------------
(* Transport: play, stop, togglePlayPause, handleStop, the animation loop *)

\* play without the guard of its first line
playUnguarded ==
  /\ startTimeRef' = now - currentTime
  /\ sourceNodeRef' = [offset |-> currentTime]
  /\ liveSources' = liveSources + 1
  /\ isPlaying' = TRUE
  /\ rafPending' = TRUE
  /\ UNCHANGED currentTime

\* App.tsx:84-109. The effect of 136-157 requests a frame once isPlaying is true.
play ==
  IF audioBuffer = NULL \/ ~audioContext
  THEN UNCHANGED transVars
  ELSE /\ startTimeRef' = now - currentTime
       /\ sourceNodeRef' = [offset |-> currentTime]
       /\ liveSources' = liveSources + 1
       /\ isPlaying' = TRUE
       /\ rafPending' = TRUE
       /\ UNCHANGED currentTime

\* App.tsx:99: the source node held was started at an offset of the buffer
\* and has played it to its end
SourceEnded ==
  /\ sourceNodeRef # NULL
  /\ audioBuffer # NULL
  /\ now - startTimeRef >= audioBuffer.duration

\* App.tsx:114: what sourceNodeRef.current.stop() can do: stop the node, or
\* throw when the node has already ended
StopOutcomes == IF SourceEnded THEN {"stopped", "threw"} ELSE {"stopped"}

\* stop without its try/catch: an error of the node's stop() leaves the
\* handler at once
stopUncaught ==
  \E outcome \in StopOutcomes :
    IF outcome = "threw"
    THEN UNCHANGED <<sourceNodeRef, liveSources, isPlaying, rafPending, startTimeRef>>
    ELSE /\ sourceNodeRef' = NULL
         /\ liveSources' = IF sourceNodeRef # NULL THEN liveSources - 1 ELSE liveSources
         /\ isPlaying' = FALSE
         /\ rafPending' = FALSE
         /\ UNCHANGED startTimeRef

\* App.tsx:111-120, with the cleanup of the effect (156); currentTime is
\* left to the caller. The catch of line 115 ignores an error of the node's
\* stop(), so that every outcome goes on the same way.
stop ==
  \E outcome \in StopOutcomes :
    /\ sourceNodeRef' = NULL
    /\ liveSources' = IF sourceNodeRef # NULL THEN liveSources - 1 ELSE liveSources
    /\ isPlaying' = FALSE
    /\ rafPending' = FALSE
    /\ UNCHANGED startTimeRef

\* togglePlayPause without the test of the playing flag: it always plays
togglePlayPauseAlwaysPlays == play

\* App.tsx:122-128
togglePlayPause ==
  IF isPlaying
  THEN stop /\ UNCHANGED currentTime
  ELSE play

\* App.tsx:130-133
handleStop ==
  /\ stop
  /\ currentTime' = 0

\* loop with the end of the track tested by > where the code has >=
loopStrictEnd ==
  IF isPlaying /\ audioContext
  THEN LET trackTime == now - startTimeRef IN
       IF audioBuffer # NULL /\ trackTime > audioBuffer.duration
       THEN /\ handleStop
            /\ last' = TimedEvent("autoStop")
       ELSE /\ currentTime' = trackTime
            /\ rafPending' = TRUE
            /\ last' = Event("tick")
            /\ UNCHANGED <<isPlaying, startTimeRef, sourceNodeRef, liveSources>>
  ELSE /\ rafPending' = FALSE
       /\ last' = Event("idleTick")
       /\ UNCHANGED <<isPlaying, currentTime, startTimeRef, sourceNodeRef, liveSources>>

\* loop calling stop where the code calls handleStop
loopKeepsPosition ==
  IF isPlaying /\ audioContext
  THEN LET trackTime == now - startTimeRef IN
       IF audioBuffer # NULL /\ trackTime >= audioBuffer.duration
       THEN /\ stop
            /\ UNCHANGED currentTime
            /\ last' = TimedEvent("autoStop")
       ELSE /\ currentTime' = trackTime
            /\ rafPending' = TRUE
            /\ last' = Event("tick")
            /\ UNCHANGED <<isPlaying, startTimeRef, sourceNodeRef, liveSources>>
  ELSE /\ rafPending' = FALSE
       /\ last' = Event("idleTick")
       /\ UNCHANGED <<isPlaying, currentTime, startTimeRef, sourceNodeRef, liveSources>>

\* loop without the test of the end of the track
loopNeverEnds ==
  IF isPlaying /\ audioContext
  THEN LET trackTime == now - startTimeRef IN
       /\ currentTime' = trackTime
       /\ rafPending' = TRUE
       /\ last' = Event("tick")
       /\ UNCHANGED <<isPlaying, startTimeRef, sourceNodeRef, liveSources>>
  ELSE /\ rafPending' = FALSE
       /\ last' = Event("idleTick")
       /\ UNCHANGED <<isPlaying, currentTime, startTimeRef, sourceNodeRef, liveSources>>

\* App.tsx:137-150: one run of the requested frame callback
loop ==
  IF isPlaying /\ audioContext
  THEN LET trackTime == now - startTimeRef IN
       IF audioBuffer # NULL /\ trackTime >= audioBuffer.duration
       THEN /\ handleStop
            /\ last' = TimedEvent("autoStop")
       ELSE /\ currentTime' = trackTime
            /\ rafPending' = TRUE
            /\ last' = Event("tick")
            /\ UNCHANGED <<isPlaying, startTimeRef, sourceNodeRef, liveSources>>
  ELSE /\ rafPending' = FALSE
       /\ last' = Event("idleTick")
       /\ UNCHANGED <<isPlaying, currentTime, startTimeRef, sourceNodeRef, liveSources>>

\* Bounds of the model on a start of playback: gestures are left, and the
\* clock has room left to reach the end of the track, so that playback
\* begins only when it can also run to its end.
GesturesLeft == presses + plays + choices < MaxGestures

MayStart ==
  /\ GesturesLeft
  /\ audioBuffer # NULL => now + audioBuffer.duration - currentTime <= MaxClock

\* Toolbar (part_000:49-54) -> onPlayPause
ClickPlayPause ==
  /\ MainView
  /\ ~isPlaying => MayStart
  /\ togglePlayPause
  /\ plays' = IF isPlaying THEN plays ELSE plays + 1
  /\ last' = Event(IF isPlaying THEN "pause" ELSE "play")
  /\ UNCHANGED <<appVars, editVars, envVars, upVars>>

\* Toolbar (part_000:55-60) -> onStop
ClickStop ==
  /\ MainView
  /\ handleStop
  /\ last' = TimedEvent("stop")
  /\ UNCHANGED <<appVars, plays, editVars, envVars, upVars>>

\* requestAnimationFrame fires the pending callback
Tick ==
  /\ rafPending
  /\ loop
  /\ UNCHANGED <<appVars, plays, editVars, envVars, upVars>>

\* The hardware clock of the audio context advances. The model follows it
\* while it can be read: during playback, and while playback can still start.
AdvanceClock ==
  /\ audioContext
  /\ isPlaying \/ GesturesLeft
  /\ \E d \in 1..MaxStep :
       /\ now + d <= MaxClock
       /\ now' = now + d
  /\ UNCHANGED <<appVars, transVars, plays, last, editVars, apiKey, upVars>>

----------------------------------------------------------------------------
(* Editing: the handlers of PianoRoll and the callbacks of App they call *)

\* App.tsx:161-167
updateNote(updatedNote) ==
  analysis' = IF analysis = NULL THEN analysis ELSE ReplaceNote(analysis, updatedNote)

\* App.tsx:169-178
handleSelectionChange(selectedIds) ==
  analysis' = IF analysis = NULL THEN analysis ELSE SelectNotes(analysis, selectedIds)

\* handleNoteMouseDown without the test of the tool
handleNoteMouseDownAnyTool(i, clientX, clientY) ==
  LET note == analysis.notes[i] IN
  /\ handleSelectionChange({note.id})
  /\ dragState' = [id |-> note.id, startX |-> clientX, startY |-> clientY,
                   originalTime |-> note.startTime, originalMidi |-> note.midi]

\* part_000:179-191
handleNoteMouseDown(i, clientX, clientY) ==
  LET note == analysis.notes[i] IN
  IF toolMode = "POINTER"
  THEN /\ handleSelectionChange({note.id})
       /\ dragState' = [id |-> note.id, startX |-> clientX, startY |-> clientY,
                        originalTime |-> note.startTime, originalMidi |-> note.midi]
  ELSE UNCHANGED <<analysis, dragState>>

\* part_000:193-213
handleMouseMove(clientX, clientY) ==
  IF dragState # NULL /\ toolMode = "POINTER"
  THEN LET target == DragTarget(dragState, viewState, clientX, clientY)
           found == {k \in DOMAIN analysis.notes : analysis.notes[k].id = dragState.id}
       IN IF found # {}
          THEN LET updatedNote == analysis.notes[CHOOSE k \in found : \A j \in found : k <= j]
               IN updateNote([updatedNote EXCEPT !.startTime = target.startTime,
                                                 !.midi = target.midi])
          ELSE UNCHANGED analysis
  ELSE UNCHANGED analysis

\* part_000:215-217
handleMouseUp == dragState' = NULL

\* part_000:220-227
handleScroll(scrollLeft, scrollTop) ==
  viewState' = [viewState EXCEPT !.scrollX = scrollLeft, !.scrollY = scrollTop]

\* part_000:313: a press on a rendered note, where the pointer is
NoteMouseDown ==
  /\ PianoRollShown
  /\ GesturesLeft
  /\ \E i \in DOMAIN analysis.notes : handleNoteMouseDown(i, pointer.x, pointer.y)
  /\ presses' = presses + 1
  /\ UNCHANGED <<audioContext, audioBuffer, fileName, isAnalyzing>>
  /\ UNCHANGED <<toolMode, viewState, pointer, choices, allTransVars, envVars, upVars>>

\* part_000:242: the pointer moves to another place over the editor
MouseMove ==
  /\ PianoRollShown
  /\ \E pos \in PointerPositions :
       /\ pointer' = [x |-> pos[1], y |-> pos[2]]
       /\ pointer' # pointer
       /\ handleMouseMove(pos[1], pos[2])
  /\ UNCHANGED <<audioContext, audioBuffer, fileName, isAnalyzing>>
  /\ UNCHANGED <<toolMode, viewState, dragState, presses, choices, allTransVars, envVars, upVars>>

\* part_000:243
MouseUp ==
  /\ PianoRollShown
  /\ handleMouseUp
  /\ UNCHANGED <<appVars, toolMode, viewState, pointer, presses, choices, allTransVars, envVars, upVars>>

\* part_000:279: the grid container is scrolled to another position
Scroll ==
  /\ PianoRollShown
  /\ \E pos \in ScrollPositions :
       /\ <<viewState.scrollX, viewState.scrollY>> # pos
       /\ handleScroll(pos[1], pos[2])
  /\ GesturesLeft
  /\ choices' = choices + 1
  /\ UNCHANGED <<appVars, toolMode, dragState, pointer, presses, allTransVars, envVars, upVars>>

\* Toolbar (part_000:70-93) -> setToolMode, another tool is chosen
SetToolMode ==
  /\ MainView
  /\ \E m \in ToolModes \ {toolMode} : toolMode' = m
  /\ GesturesLeft
  /\ choices' = choices + 1
  /\ UNCHANGED <<appVars, viewState, dragState, pointer, presses, allTransVars, envVars, upVars>>

----------------------------------------------------------------------------
(* The application as the user can drive it *)

Next ==
  \/ ChooseFile
  \/ DecodeResolved
  \/ DecodeRejected
  \/ EncodeResolved
  \/ EncodeRejected
  \/ GeminiResponded
  \/ ClickPlayPause
  \/ ClickStop
  \/ Tick
  \/ AdvanceClock
  \/ NoteMouseDown
  \/ MouseMove
  \/ MouseUp
  \/ Scroll
  \/ SetToolMode

Spec == Init /\ [][Next]_vars

\* requestAnimationFrame runs a pending callback, and the hardware clock
\* runs on, whatever the user does
LiveSpec == Spec /\ WF_vars(Tick) /\ WF_vars(AdvanceClock)

----------------------------------------------------------------------------
(* The transport handlers called directly, whatever is rendered *)

\* App.tsx:122-128
CallPlayPause ==
  /\ ~isPlaying => MayStart
  /\ togglePlayPause
  /\ plays' = IF isPlaying THEN plays ELSE plays + 1
  /\ last' = Event(IF isPlaying THEN "pause" ELSE "play")
  /\ UNCHANGED <<appVars, editVars, envVars, upVars>>

\* App.tsx:130-133
CallStop ==
  /\ handleStop
  /\ last' = TimedEvent("stop")
  /\ UNCHANGED <<appVars, plays, editVars, envVars, upVars>>

HandlerNext ==
  \/ ChooseFile
  \/ DecodeResolved
  \/ DecodeRejected
  \/ EncodeResolved
  \/ EncodeRejected
  \/ GeminiResponded
  \/ CallPlayPause
  \/ CallStop
  \/ Tick
  \/ AdvanceClock
  \/ NoteMouseDown
  \/ MouseMove
  \/ MouseUp
  \/ Scroll
  \/ SetToolMode

HandlerSpec == Init /\ [][HandlerNext]_vars

----------------------------------------------------------------------------
(* Claims *)

\* The track time a redraw tick computes: hardware clock minus epoch
Elapsed == now - startTimeRef

\* A start of playback from the toolbar
PlayStep == ClickPlayPause /\ ~isPlaying

\* A redraw tick during playback that finds the end of the track reached
AutoStopStep == Tick /\ isPlaying /\ Elapsed >= audioBuffer.duration

\* A redraw tick during playback before the end of the track
PublishStep == Tick /\ isPlaying /\ Elapsed < audioBuffer.duration

C1_Step ==
  /\ PlayStep => (isPlaying' /\ rafPending' /\ startTimeRef' = now - currentTime)
  /\ PublishStep => (currentTime' = Elapsed /\ isPlaying' /\ rafPending')
  /\ AutoStopStep => (~isPlaying' /\ ~rafPending')

\* C1: play captures the epoch as clock now minus the current time; every
\* redraw tick during playback computes elapsed = now - epoch and, before
\* the end of the track, publishes it as the current time and re-arms the
\* tick, and from the end of the track on stops playback and does not
\* re-arm; with ticks firing and the clock advancing, playback that has
\* started eventually stops.
C1_TransportClock == [][C1_Step]_vars /\ (isPlaying ~> ~isPlaying)

\* Playback has run into the end of the track and a tick has stopped it
C1_Witness ==
  /\ last.op = "autoStop"
  /\ ~isPlaying
  /\ ~rafPending
  /\ audioBuffer # NULL
  /\ Elapsed >= audioBuffer.duration

\* C2 as stated: an automatic stop at the end of the track leaves the
\* current time where it was, and a manual stop resets it to 0.
C2_AutoStopKeepsPosition ==
  [][(AutoStopStep => currentTime' = currentTime) /\ (ClickStop => currentTime' = 0)]_vars

\* C2 amended: the tick that finds the end of the track reached calls
\* handleStop, so the automatic stop resets the current time to 0 exactly
\* as the manual stop does.
C2_EveryStopResetsPosition ==
  [][(AutoStopStep \/ ClickStop) => (currentTime' = 0 /\ ~isPlaying')]_vars

\* An automatic stop has reset a position that was not 0
C2_Witness ==
  /\ last.op = "autoStop"
  /\ last.t > 0
  /\ currentTime = 0
  /\ ~isPlaying

FailureOps == {"decodeFailed", "encodeFailed", "noApiKey", "analysisFailed"}

\* C3 as stated: after a failed upload no analysis is set, the analyzing
\* flag is false, nothing is in flight, and the audio buffer and the file
\* name are what they were when the upload began.
C3_PreUploadState ==
  last.op \in FailureOps =>
    /\ analysis = NULL
    /\ ~isAnalyzing
    /\ pc = "idle"
    /\ audioBuffer = upPre.audioBuffer
    /\ fileName = upPre.fileName

\* C3 amended: after a failed upload no analysis is set, the analyzing flag
\* is false and nothing is in flight (no retry); the file name is that of
\* the file chosen; the audio buffer is what it was when the upload began if
\* decoding failed, and the newly decoded buffer if a later step failed.
C3_FailedUpload ==
  last.op \in FailureOps =>
    /\ analysis = NULL
    /\ ~isAnalyzing
    /\ pc = "idle"
    /\ fileName = upFile.name
    /\ IF last.op = "decodeFailed"
       THEN audioBuffer = upPre.audioBuffer
       ELSE audioBuffer # NULL /\ audioBuffer.src = upFile.name

\* The transcription failed after the decoding had succeeded
C3_Witness ==
  /\ last.op = "analysisFailed"
  /\ audioBuffer # upPre.audioBuffer
  /\ fileName # upPre.fileName
  /\ ~isAnalyzing

\* The integer nearest to n / d (d > 0), a half counting upwards
Nearest(n, d) == CHOOSE r \in -200..200 : 2 * r * d - d <= 2 * n /\ 2 * n < 2 * r * d + d

\* An updateDrag: the pointer moves while a drag is recorded and the
\* pointer tool is active
UpdateDragStep == MouseMove /\ dragState # NULL /\ toolMode = "POINTER"

\* The note of the drag record, after the step
DraggedNote ==
  LET k == CHOOSE k \in DOMAIN analysis'.notes : analysis'.notes[k].id = dragState.id
  IN analysis'.notes[k]

C4_Formula ==
  LET dx == pointer'.x - dragState.startX
      dy == pointer'.y - dragState.startY
  IN /\ DraggedNote.midi = Min(108, Max(21, dragState.originalMidi - Nearest(dy, viewState.zoomY)))
     /\ 100 * DraggedNote.startTime = Max(0, 100 * dragState.originalTime + (100 * dx * TicksPerSecond) \div viewState.zoomX)

\* The part of C4 that holds of every updateDrag: the note is where the
\* clamped formula puts it, whatever the pointer did before.
C4_ClampedFormula == [][UpdateDragStep => C4_Formula]_vars

\* C4 as stated: after every updateDrag the dragged note is where the clamped
\* formula puts it, and with the pointer back at its origin the note has the
\* pitch and the time recorded at beginDrag.
C4_DragFollowsPointer ==
  [][UpdateDragStep =>
       /\ C4_Formula
       /\ (pointer'.x = dragState.startX /\ pointer'.y = dragState.startY) =>
             /\ DraggedNote.midi = dragState.originalMidi
             /\ DraggedNote.startTime = dragState.originalTime]_vars

\* What is left of the second half of C4: the pointer back at its origin
\* restores the pitch and the time recorded at beginDrag when these were
\* inside the clamps, as they are for every note C5 holds of.
C4_RestoresInRange ==
  [][(/\ UpdateDragStep
      /\ pointer'.x = dragState.startX /\ pointer'.y = dragState.startY
      /\ dragState.originalMidi \in 21..108 /\ dragState.originalTime >= 0) =>
       /\ DraggedNote.midi = dragState.originalMidi
       /\ DraggedNote.startTime = dragState.originalTime]_vars

\* C5 as stated: every note of the analysis result has its pitch in
\* [21, 108] and its start time >= 0.
C5_NotesInRange ==
  analysis # NULL =>
    \A k \in DOMAIN analysis.notes :
      /\ analysis.notes[k].midi >= 21
      /\ analysis.notes[k].midi <= 108
      /\ analysis.notes[k].startTime >= 0

\* C6: an updateDrag changes nothing but the start time and the pitch of the
\* dragged note: every note keeps its id, duration, velocity and selection
\* flag, every other note is unchanged, the collection keeps its length and
\* order, and key, scale and bpm are unchanged.
C6_DragFrame ==
  [][MouseMove =>
       /\ analysis'.key = analysis.key
       /\ analysis'.scale = analysis.scale
       /\ analysis'.bpm = analysis.bpm
       /\ DOMAIN analysis'.notes = DOMAIN analysis.notes
       /\ \A k \in DOMAIN analysis.notes :
            LET a == analysis.notes[k]
                b == analysis'.notes[k]
            IN /\ b.id = a.id
               /\ b.duration = a.duration
               /\ b.velocity = a.velocity
               /\ b.selected = a.selected
               /\ (dragState = NULL \/ toolMode # "POINTER" \/ a.id # dragState.id) => b = a]_vars

\* One of two notes is being dragged and has moved in time and pitch
C6_Witness ==
  /\ analysis # NULL
  /\ dragState # NULL
  /\ toolMode = "POINTER"
  /\ Len(analysis.notes) = 2
  /\ \E k \in DOMAIN analysis.notes :
       /\ analysis.notes[k].id = dragState.id
       /\ analysis.notes[k].startTime # dragState.originalTime
       /\ analysis.notes[k].midi # dragState.originalMidi

\* select(ids) on the analysis result at hand, for every set of identifiers
C7_SelectExact ==
  analysis # NULL =>
    \A ids \in SUBSET {0, 1, 2} :
      LET r == SelectNotes(analysis, ids) IN
      /\ r.key = analysis.key /\ r.scale = analysis.scale /\ r.bpm = analysis.bpm
      /\ DOMAIN r.notes = DOMAIN analysis.notes
      /\ \A k \in DOMAIN analysis.notes :
           /\ r.notes[k].selected = (analysis.notes[k].id \in ids)
           /\ [r.notes[k] EXCEPT !.selected = analysis.notes[k].selected] = analysis.notes[k]

\* A press on a note with the pointer tool
C7_PressStep ==
  (NoteMouseDown /\ toolMode = "POINTER") =>
    \E i \in DOMAIN analysis.notes :
      /\ dragState'.id = analysis.notes[i].id
      /\ \A k \in DOMAIN analysis.notes :
           /\ analysis'.notes[k].selected = (k = i)
           /\ [analysis'.notes[k] EXCEPT !.selected = analysis.notes[k].selected] = analysis.notes[k]

\* C7: select(ids) sets a note's selection flag exactly when its id is in
\* ids and changes no other field; a press on a note with the pointer tool
\* leaves that note the only one selected, whatever was selected before.
C7_Selection == []C7_SelectExact /\ [][C7_PressStep]_vars

\* The first note was pressed and dragged, then the second was pressed: only
\* the second is selected
C7_Witness ==
  /\ analysis # NULL
  /\ Len(analysis.notes) = 2
  /\ presses = 2
  /\ analysis.notes[1].startTime # N60.startTime
  /\ ~analysis.notes[1].selected
  /\ analysis.notes[2].selected
  /\ dragState # NULL
  /\ dragState.id = analysis.notes[2].id

\* C8: with a tool other than the pointer, a press on a note and a move of
\* the pointer change neither the drag state nor any note (no selection
\* flag, no time, no pitch).
C8_OtherToolsNoOp ==
  [][(toolMode # "POINTER" /\ (NoteMouseDown \/ MouseMove)) =>
       (dragState' = dragState /\ analysis' = analysis)]_vars

\* A note was pressed with another tool and the pointer has moved: no drag
\* is recorded, no note is selected
C8_Witness ==
  /\ analysis # NULL
  /\ toolMode # "POINTER"
  /\ presses = 1
  /\ dragState = NULL
  /\ pointer # [x |-> 50, y |-> 0]
  /\ \A k \in DOMAIN analysis.notes : ~analysis.notes[k].selected

\* C9: choosing a file of more than 50 * 1024 * 1024 bytes changes nothing
\* (no file name, no analyzing flag, no audio context, no buffer, no
\* analysis, no decode begun); a file of 50 * 1024 * 1024 bytes or less is
\* taken: its decoding begins.
C9_SizeLimit ==
  [][ChooseFile =>
       IF last'.size > 50 * 1024 * 1024
       THEN /\ last'.op = "uploadRejected"
            /\ UNCHANGED <<appVars, upVars, transVars, editVars>>
       ELSE /\ last'.op = "uploadStarted"
            /\ pc' = "decode"
            /\ isAnalyzing'
            /\ upFile'.size = last'.size]_vars

\* A 60MB file was chosen and rejected
C9_Witness ==
  /\ last.op = "uploadRejected"
  /\ last.size = 60 * 1024 * 1024
  /\ pc = "idle"
  /\ ~isAnalyzing
  /\ fileName = NoName

\* A file of exactly 50MB was chosen and is being decoded
C9_WitnessExact ==
  /\ last.op = "uploadStarted"
  /\ last.size = 50 * 1024 * 1024
  /\ pc = "decode"

\* C10: play, and the play/pause toggle while stopped, with no audio buffer
\* or no audio context, leave the playing flag, the current time, the epoch,
\* the playback handle and the pending frame as they are.
C10_PlayWithoutAudio ==
  [][(CallPlayPause /\ ~isPlaying /\ (audioBuffer = NULL \/ ~audioContext)) =>
       UNCHANGED <<isPlaying, currentTime, startTimeRef, sourceNodeRef, rafPending, liveSources>>]_vars

\* The toggle was called with nothing loaded
C10_Witness ==
  /\ last.op = "play"
  /\ audioBuffer = NULL
  /\ ~isPlaying
  /\ sourceNodeRef = NULL

\* The view state with other zoom factors
ZoomedView(zx, zy) == [viewState EXCEPT !.zoomX = zx, !.zoomY = zy]

\* The notes drawn: those of the analysis result, at any zoom
C11_Left(note, zx, zy) == NoteStyle(note, ZoomedView(zx, zy)).left = note.startTime * zx
C11_Top(note, zx, zy) == NoteStyle(note, ZoomedView(zx, zy)).top = (108 - note.midi) * zy

\* The top edge falls as the pitch rises: the note drawn a semitone up is
\* strictly higher on the screen, and of two notes of the analysis result
\* the one of higher pitch is strictly higher on the screen
C11_TopDecreasing(note, zx, zy) ==
  /\ NoteStyle([note EXCEPT !.midi = note.midi + 1], ZoomedView(zx, zy)).top
       < NoteStyle(note, ZoomedView(zx, zy)).top
  /\ \A j \in DOMAIN analysis.notes :
       analysis.notes[j].midi > note.midi =>
         NoteStyle(analysis.notes[j], ZoomedView(zx, zy)).top < NoteStyle(note, ZoomedView(zx, zy)).top

C11_WitnessScenario ==
  /\ PianoRollShown
  /\ \E k \in DOMAIN analysis.notes :
       /\ analysis.notes[k].midi = 60 /\ analysis.notes[k].startTime = 5 * TicksPerSecond
       /\ NoteStyle(analysis.notes[k], viewState)
            = [top |-> 1152, left |-> 500 * TicksPerSecond, width |-> 200 * TicksPerSecond,
               height |-> 22, margin |-> 1]

\* A pause: the play/pause toggle of the toolbar during playback
PauseStep == ClickPlayPause /\ isPlaying

\* C12: an explicit stop, in any transport state (playing, paused at a
\* position other than 0, already stopped), leaves the playing flag false,
\* the current time 0, no playback handle held and no redraw tick pending,
\* also when stopping the handle raises an error; a pause by the play/pause
\* toggle leaves the current time as it is.
C12_ExplicitStop ==
  [][/\ ClickStop => (~isPlaying' /\ currentTime' = 0 /\ sourceNodeRef' = NULL /\ ~rafPending')
     /\ PauseStep => (currentTime' = currentTime /\ ~isPlaying')]_vars

\* Stop was pressed at a position other than 0, the source node having
\* played the buffer to its end
C12_Witness ==
  /\ last.op = "stop"
  /\ last.t > 0
  /\ audioBuffer # NULL
  /\ Elapsed >= audioBuffer.duration
  /\ ~isPlaying
  /\ currentTime = 0
  /\ sourceNodeRef = NULL
  /\ ~rafPending

\* C13: in every reachable state, whatever the interleaving of play, pause,
\* stop and redraw ticks, the current time published lies within
\* [0, duration] of the track loaded.
C13_TimeWithinTrack ==
  /\ currentTime >= 0
  /\ audioBuffer # NULL => currentTime <= audioBuffer.duration
  /\ audioBuffer = NULL => currentTime = 0

\* Playback was paused and resumed, and a redraw tick has published the last
\* position before the end of the track
C13_Witness ==
  /\ plays = 2
  /\ isPlaying
  /\ last.op = "tick"
  /\ sourceNodeRef.offset > 0
  /\ currentTime > sourceNodeRef.offset
  /\ currentTime = audioBuffer.duration - 1

\* A step that creates a playback handle: a source node is started
CreatesHandle == liveSources' > liveSources \/ (sourceNodeRef' # NULL /\ sourceNodeRef' # sourceNodeRef)

\* At most one source node is live, it is the one held, and a handle is
\* held exactly when the playing flag is true
C14_HandleHeld ==
  /\ liveSources <= 1
  /\ liveSources = (IF sourceNodeRef # NULL THEN 1 ELSE 0)
  /\ (sourceNodeRef # NULL) <=> isPlaying

\* C14: there is at most one live playback handle at any time; over any
\* sequence of toggles, stops and automatic stops a handle is created only
\* when every handle created before has been stopped and cleared, and a
\* handle is held exactly when the playing flag is true.
C14_SingleHandle ==
  /\ []C14_HandleHeld
  /\ [][CreatesHandle => (sourceNodeRef = NULL /\ liveSources = 0 /\ liveSources' = 1)]_vars

\* Playback was paused at a position other than 0 and started again: the
\* second handle is the only one live
C14_Witness ==
  /\ plays = 2
  /\ isPlaying
  /\ sourceNodeRef # NULL
  /\ sourceNodeRef.offset > 0
  /\ liveSources = 1

====
